---- MODULE Spec2Model ----
(***************************************************************************)
(* Model of pypi_package_rot: the liveness classifier of api/project.py    *)
(* (Project.is_dead / seems_dead / should_be_terminated and the Info and   *)
(* Releases queries they use), the cached registry fetch _get_project, and *)
(* the crawl loop of cli.py.                                               *)
(*                                                                         *)
(* Python values are encoded as follows.  Optional[X] of a structured X is *)
(* a sequence of length 0 (None) or 1; an Optional[str] is the string      *)
(* "None" or the string itself; the outcome of a call is one of the        *)
(* strings "True", "False" or the name of the exception it raised.         *)
(***************************************************************************)
EXTENDS Integers, Sequences, FiniteSets, TLC

VARIABLES
    \* ---- classifier (Spec) ----
    project,      \* the Project record under classification
    now,          \* datetime.now(timezone.utc), in seconds
    called,       \* the method last called on project ("none" before any call)
    outcome,      \* what that call returned or raised
    rateValue,    \* the float working_urls_rate returned, as [num, den]
    urlProbes,    \* is_valid_url calls made by that call
    emailProbes,  \* is_valid_email calls made by that call
    \* ---- cached fetch and crawl (SpecCrawl, SpecConc) ----
    cache,        \* the files under {cache_dir}/project: path -> [data, creation_time]
    clock,        \* time(), in seconds
    lastStore,    \* history: per package name, the entry last stored and by whom
    pc,           \* per thread: the position inside from_project_name
    arg,          \* per thread: the arguments of the call in progress
    found,        \* per thread: what the cache lookup of the call saw
    fetched,      \* per thread: the dict _get_project produced (or the empty sequence)
    trace,        \* per thread: the events of the call in progress
    returned,     \* per thread: the outcome of the last finished call
    crawl         \* perpetual_scraper: [pc, user_agent, package_names, idx]

classifierVars == <<project, now, called, outcome, rateValue, urlProbes, emailProbes>>
fetchVars == <<cache, clock, lastStore, pc, arg, found, fetched, trace, returned, crawl>>
vars == <<project, now, called, outcome, rateValue, urlProbes, emailProbes,
          cache, clock, lastStore, pc, arg, found, fetched, trace, returned, crawl>>

None == "None"

Bool(b) == IF b THEN "True" ELSE "False"

RECURSIVE SumSeq(_)
SumSeq(s) == IF s = <<>> THEN 0 ELSE Head(s) + SumSeq(Tail(s))

RECURSIVE Flatten(_)
Flatten(ss) == IF ss = <<>> THEN <<>> ELSE Head(ss) \o Flatten(Tail(ss))

(***************************************************************************)
(* Collaborators of the classifier.  A URL is named by what probing it     *)
(* finds and an address by what validating it finds, so that the probe     *)
(* outcomes are part of the input record.                                  *)
(***************************************************************************)
is_valid_url(url) == url = "https://reachable"

is_valid_email(email) == email = "valid@example.org"

extract_candidate_urls_from_plain_text(description) == description.urls

(***************************************************************************)
(* Releases                                                                *)
(***************************************************************************)
SecondsPerDay == 60 * 60 * 24

\* The order in which dict iteration visits the version keys.
VersionOrder == <<"1.0", "2.0">>

\* [release for releases in self.versions.values() for release in releases]
AllReleases(releases) ==
    Flatten([i \in 1..Len(VersionOrder) |->
               IF VersionOrder[i] \in DOMAIN releases.versions
               THEN releases.versions[VersionOrder[i]]
               ELSE <<>>])

parsed_upload_time(release) == release.upload_time_iso_8601

\* sorted(..., key=parsed_upload_time, reverse=True)[0]: the sort is stable, so
\* among the releases with the greatest time the first in iteration order wins.
last_release(releases) ==
    LET all == AllReleases(releases) IN
    IF DOMAIN releases.versions = {} THEN <<>>
    ELSE IF \A v \in DOMAIN releases.versions : Len(releases.versions[v]) = 0 THEN <<>>
    ELSE LET best == CHOOSE i \in 1..Len(all) :
                       /\ \A j \in 1..Len(all) :
                            parsed_upload_time(all[j]) <= parsed_upload_time(all[i])
                       /\ \A j \in 1..(i - 1) :
                            parsed_upload_time(all[j]) < parsed_upload_time(all[i])
         IN <<all[best]>>

(***************************************************************************)
(* Info                                                                    *)
(***************************************************************************)
Present(url) == IF url # None THEN <<url>> ELSE <<>>

iter_urls(info) ==
    Present(info.bugtrack_url) \o Present(info.docs_url) \o Present(info.download_url)
      \o Present(info.home_page) \o Present(info.project_url) \o Present(info.release_url)
      \o (IF info.project_urls # <<>> THEN info.project_urls[1] ELSE <<>>)
      \o extract_candidate_urls_from_plain_text(info.description)

number_of_candidate_urls(info) == Len(iter_urls(info))

number_of_working_urls(info) ==
    LET urls == iter_urls(info) IN
    SumSeq([i \in 1..Len(urls) |-> IF is_valid_url(urls[i]) THEN 1 ELSE 0])

\* The quotient is kept as the pair it is computed from; a zero divisor raises.
working_urls_rate(info) ==
    IF number_of_candidate_urls(info) = 0
    THEN [raised |-> "ZeroDivisionError", num |-> 0, den |-> 0]
    ELSE [raised |-> None,
          num |-> number_of_working_urls(info),
          den |-> number_of_candidate_urls(info)]

has_author_email(info) ==
    IF info.author_email = None THEN FALSE ELSE is_valid_email(info.author_email)

has_maintainer_email(info) ==
    IF info.maintainer_email = None THEN FALSE ELSE is_valid_email(info.maintainer_email)

has_any_email(info) == has_author_email(info) \/ has_maintainer_email(info)

\* is_valid_email calls of has_any_email: `or` skips the maintainer once the
\* author address validates.
has_any_email_probes(info) ==
    (IF info.author_email = None THEN 0 ELSE 1)
    + (IF has_author_email(info) \/ info.maintainer_email = None THEN 0 ELSE 1)

summary_length(info) == IF info.summary = <<>> THEN 0 ELSE info.summary[1]

\* rate < 0.5 over the pair: num / den < 1/2.
RateBelowHalf(rate) == 2 * rate.num < rate.den

Info_seems_dead(info) ==
    LET rate == working_urls_rate(info)
        n == number_of_candidate_urls(info)
    IN
    IF rate.raised # None
    THEN [outcome |-> rate.raised, urlProbes |-> n]
    ELSE [outcome |-> Bool(/\ (RateBelowHalf(rate) \/ number_of_working_urls(info) < 2)
                           /\ (info.description.length < 100 /\ summary_length(info) < 10)),
          urlProbes |-> IF RateBelowHalf(rate) THEN n ELSE n + n]

(***************************************************************************)
(* Project                                                                 *)
(***************************************************************************)
\* Mutant of is_dead: the check of the release history is left out.
is_dead_ignoring_releases(p) ==
    IF p.status # 200 THEN TRUE
    ELSE IF p.info = <<>> THEN TRUE
    ELSE IF p.info[1].yanked THEN TRUE
    ELSE FALSE

is_dead(p) ==
    IF p.status # 200 THEN TRUE
    ELSE IF p.info = <<>> THEN TRUE
    ELSE IF p.info[1].yanked THEN TRUE
    ELSE IF last_release(p.releases) = <<>> THEN TRUE
    ELSE FALSE

\* (now - parsed_upload_time).days > 365: timedelta.days is the floor of the
\* difference in days, also for a release stamped in the future.
older_than_one_year(p, t) ==
    ((t - parsed_upload_time(last_release(p.releases)[1])) \div SecondsPerDay) > 365

\* Mutant of seems_dead: a dead record is answered False.
seems_dead_false_when_dead(p, t) ==
    IF is_dead(p) THEN [outcome |-> "False", urlProbes |-> 0]
    ELSE LET i == Info_seems_dead(p.info[1]) IN
         IF i.outcome = "True"
         THEN [outcome |-> Bool(older_than_one_year(p, t)), urlProbes |-> i.urlProbes]
         ELSE i

seems_dead(p, t) ==
    IF is_dead(p) THEN [outcome |-> "True", urlProbes |-> 0]
    ELSE LET i == Info_seems_dead(p.info[1]) IN
         IF i.outcome = "True"
         THEN [outcome |-> Bool(older_than_one_year(p, t)), urlProbes |-> i.urlProbes]
         ELSE i

\* Mutant of should_be_terminated: the email check is left out.
should_be_terminated_ignoring_email(p, t) ==
    IF is_dead(p) THEN [outcome |-> "True", urlProbes |-> 0, emailProbes |-> 0]
    ELSE LET s == seems_dead(p, t) IN
         [outcome |-> s.outcome, urlProbes |-> s.urlProbes, emailProbes |-> 0]

should_be_terminated(p, t) ==
    IF is_dead(p) THEN [outcome |-> "True", urlProbes |-> 0, emailProbes |-> 0]
    ELSE LET s == seems_dead(p, t) IN
         IF s.outcome = "True"
         THEN [outcome |-> Bool(~has_any_email(p.info[1])),
               urlProbes |-> s.urlProbes,
               emailProbes |-> has_any_email_probes(p.info[1])]
         ELSE [outcome |-> s.outcome, urlProbes |-> s.urlProbes, emailProbes |-> 0]

(***************************************************************************)
(* The records the classifier is run on.                                   *)
(***************************************************************************)
MaxDescriptionUrls == 1

Now == 500 * SecondsPerDay

\* Upload times 30 days, one second short of 366 days, and 400 days before Now.
UploadTimes == {Now - 30 * SecondsPerDay,
                Now - 366 * SecondsPerDay + 1,
                Now - 400 * SecondsPerDay}

ReleaseLists ==
    {<<>>} \cup {<<[upload_time_iso_8601 |-> u]>> : u \in UploadTimes}

\* Version "2.0", when there, is empty or holds the release of the middle time,
\* so that the most recent release is found under either key.
ReleasesInputs ==
    {[versions |-> vs] :
       vs \in UNION {{f \in [keys -> ReleaseLists] :
                        "2.0" \in keys =>
                          f["2.0"] \in {<<>>, <<[upload_time_iso_8601 |->
                                                 Now - 366 * SecondsPerDay + 1]>>}} :
                     keys \in SUBSET {"1.0", "2.0"}}}

UnreachableUrls(n) == [i \in 1..n |-> "https://unreachable"]

Descriptions ==
    {[length |-> l, urls |-> UnreachableUrls(k)] :
       l \in {50, 100}, k \in 0..MaxDescriptionUrls}

InfoInputs ==
    [bugtrack_url : {None, "https://unreachable"},
     docs_url : {None},
     download_url : {None},
     home_page : {None, "https://reachable", "https://unreachable"},
     project_url : {None, "https://reachable"},
     release_url : {None},
     project_urls : {<<>>, <<UnreachableUrls(2)>>},
     description : Descriptions,
     summary : {<<>>, <<5>>, <<10>>},
     author_email : {None, "valid@example.org", "bounces@example.org"},
     maintainer_email : {None, "valid@example.org"},
     yanked : BOOLEAN]

\* An Info with every singular URL field set, as the registry sends it.
FullInfo ==
    [bugtrack_url |-> "https://unreachable", docs_url |-> "https://reachable",
     download_url |-> "https://unreachable", home_page |-> "https://reachable",
     project_url |-> "https://reachable", release_url |-> "https://reachable",
     project_urls |-> <<UnreachableUrls(1)>>,
     description |-> [length |-> 100, urls |-> <<>>], summary |-> <<10>>,
     author_email |-> "valid@example.org", maintainer_email |-> None,
     yanked |-> FALSE]

ProjectInputs ==
    [status : {200}, info : {<<i>> : i \in InfoInputs}, project_name : {"pkg"},
     releases : ReleasesInputs]
    \cup [status : {200, 404}, info : {<<>>, <<FullInfo>>}, project_name : {"pkg"},
          releases : ReleasesInputs]

NoRate == [num |-> 0, den |-> 0]

ClassifierIdle ==
    /\ called = "none" /\ outcome = "none" /\ rateValue = NoRate
    /\ urlProbes = 0 /\ emailProbes = 0

(***************************************************************************)
(* Spec: one classifier method is called on a record.                      *)
(***************************************************************************)
CallIsDead ==
    /\ called = "none"
    /\ called' = "is_dead"
    /\ outcome' = Bool(is_dead(project))
    /\ urlProbes' = 0 /\ emailProbes' = 0
    /\ UNCHANGED rateValue
    /\ UNCHANGED <<project, now>> /\ UNCHANGED fetchVars

CallWorkingUrlsRate ==
    /\ called = "none"
    /\ project.info # <<>>
    /\ LET r == working_urls_rate(project.info[1]) IN
       /\ called' = "working_urls_rate"
       /\ outcome' = IF r.raised # None THEN r.raised ELSE "float"
       /\ rateValue' = [num |-> r.num, den |-> r.den]
       /\ urlProbes' = number_of_candidate_urls(project.info[1])
       /\ emailProbes' = 0
    /\ UNCHANGED <<project, now>> /\ UNCHANGED fetchVars

CallSeemsDead ==
    /\ called = "none"
    /\ LET r == seems_dead(project, now) IN
       /\ called' = "seems_dead"
       /\ outcome' = r.outcome
       /\ urlProbes' = r.urlProbes
       /\ emailProbes' = 0
       /\ UNCHANGED rateValue
    /\ UNCHANGED <<project, now>> /\ UNCHANGED fetchVars

CallShouldBeTerminated ==
    /\ called = "none"
    /\ LET r == should_be_terminated(project, now) IN
       /\ called' = "should_be_terminated"
       /\ outcome' = r.outcome
       /\ urlProbes' = r.urlProbes
       /\ emailProbes' = r.emailProbes
       /\ UNCHANGED rateValue
    /\ UNCHANGED <<project, now>> /\ UNCHANGED fetchVars

(***************************************************************************)
(* The cached registry fetch: @Cache(...) around _get_project, and         *)
(* Project.from_project_name on top of it.                                 *)
(***************************************************************************)
NumCallers == 2

MaxTicks == 3

Threads == 1..NumCallers

PackageNames == {"a", "b"}

Emails == {"x@example.org", "y@example.org"}

\* f"pypi_package_rot/{__version__} ({namespace.email})"
UserAgent(email) == <<"pypi_package_rot", email>>

UserAgents == {UserAgent(e) : e \in Emails}

\* validity_duration=60 * 60 * 24 * 30, in seconds
validity_duration == 60 * 60 * 24 * 30

TickLength == validity_duration \div 2

\* Mutant of CachePath: the identity string is part of the path.
CachePath_with_user_agent(project_name, user_agent) ==
    <<"project", project_name, user_agent>>

\* cache_path="{cache_dir}/project/{project_name}.json", args_to_ignore=["user_agent"]
CachePath(project_name, user_agent) == <<"project", project_name>>

\* What the registry may answer: the info of a 200 document is complete, lacks a
\* required key, is not a dict, or is absent; another status carries no document.
Responses ==
    [status : {200}, info : {"complete", "missing_key", "not_a_dict", "absent"}]
      \cup [status : {404}, info : {"absent"}]

\* The age class of the entry last stored for a name, whatever path it went to.
AgeClass(name) ==
    IF lastStore[name] = <<>> THEN "absent"
    ELSE LET age == clock - lastStore[name][1].entry.creation_time IN
         IF age < validity_duration THEN "fresh"
         ELSE IF age > validity_duration THEN "stale"
         ELSE "boundary"

\* The decorator's wrapper, before the function: a stored result within its
\* validity is loaded and returned.  An entry exactly validity_duration old is
\* taken either way, and an expired file is either left or removed.
Cache_load(t) ==
    /\ pc[t] = "load"
    /\ LET path == CachePath(arg[t].project_name, arg[t].user_agent) IN
       /\ found' = [found EXCEPT ![t] = AgeClass(arg[t].project_name)]
       /\ \/ /\ path \in DOMAIN cache
             /\ clock - cache[path].creation_time <= validity_duration
             /\ fetched' = [fetched EXCEPT ![t] = <<cache[path].data>>]
             /\ trace' = [trace EXCEPT ![t] = <<"hit">>]
             /\ pc' = [pc EXCEPT ![t] = "from_dict"]
             /\ UNCHANGED cache
          \/ /\ path \in DOMAIN cache
             /\ clock - cache[path].creation_time >= validity_duration
             /\ \/ UNCHANGED cache
                \/ cache' = [q \in DOMAIN cache \ {path} |-> cache[q]]
             /\ trace' = [trace EXCEPT ![t] = <<"miss">>]
             /\ pc' = [pc EXCEPT ![t] = "auto_sleep"]
             /\ UNCHANGED fetched
          \/ /\ path \notin DOMAIN cache
             /\ trace' = [trace EXCEPT ![t] = <<"miss">>]
             /\ pc' = [pc EXCEPT ![t] = "auto_sleep"]
             /\ UNCHANGED <<cache, fetched>>
    /\ UNCHANGED <<clock, lastStore, arg, returned, crawl>>
    /\ UNCHANGED classifierVars

\* Mutant of auto_sleep: the request is made without the delay.
auto_sleep_skipped(t) ==
    /\ pc[t] = "auto_sleep"
    /\ pc' = [pc EXCEPT ![t] = "requests_get"]
    /\ UNCHANGED <<cache, clock, lastStore, arg, found, fetched, trace, returned, crawl>>
    /\ UNCHANGED classifierVars

\* _get_project: the courtesy delay before the request.
auto_sleep(t) ==
    /\ pc[t] = "auto_sleep"
    /\ trace' = [trace EXCEPT ![t] = Append(@, "auto_sleep")]
    /\ pc' = [pc EXCEPT ![t] = "requests_get"]
    /\ UNCHANGED <<cache, clock, lastStore, arg, found, fetched, returned, crawl>>
    /\ UNCHANGED classifierVars

\* Mutant of TransientFailure: the failure is stored as a status-only record.
TransientFailure_recorded_dead(t) ==
    LET entry == [data |-> [status |-> 408, project_name |-> arg[t].project_name,
                            info |-> "absent"],
                  creation_time |-> clock]
        path == <<"project", arg[t].project_name>>
    IN
    /\ pc' = [pc EXCEPT ![t] = "raised"]
    /\ returned' = [returned EXCEPT ![t] = "requests.exceptions.RequestException"]
    /\ cache' = [q \in DOMAIN cache \cup {path} |->
                   IF q = path THEN entry ELSE cache[q]]
    /\ lastStore' = [lastStore EXCEPT ![arg[t].project_name] =
                       <<[entry |-> entry, user_agent |-> arg[t].user_agent]>>]
    /\ UNCHANGED fetched

\* requests.get(..., timeout=5) raises on a timeout or a connection failure: the
\* exception leaves _get_project and the decorator, and nothing is stored.
TransientFailure(t) ==
    /\ pc' = [pc EXCEPT ![t] = "raised"]
    /\ returned' = [returned EXCEPT ![t] = "requests.exceptions.RequestException"]
    /\ UNCHANGED <<cache, lastStore, fetched>>

\* _get_project: the request and the dict built from the response.
requests_get(t) ==
    /\ pc[t] = "requests_get"
    /\ trace' = [trace EXCEPT ![t] = Append(@, "requests.get")]
    /\ \/ TransientFailure(t)
       \/ \E response \in Responses :
            /\ fetched' = [fetched EXCEPT ![t] =
                   <<[status |-> response.status,
                      project_name |-> arg[t].project_name,
                      info |-> response.info]>>]
            /\ pc' = [pc EXCEPT ![t] = "store"]
            /\ UNCHANGED <<cache, lastStore, returned>>
    /\ UNCHANGED <<clock, arg, found, crawl>>
    /\ UNCHANGED classifierVars

\* The decorator's wrapper, after the function: the result is written to the path.
Cache_store(t) ==
    /\ pc[t] = "store"
    /\ LET entry == [data |-> fetched[t][1], creation_time |-> clock]
           path == CachePath(arg[t].project_name, arg[t].user_agent)
       IN
       /\ cache' = [q \in DOMAIN cache \cup {path} |->
                      IF q = path THEN entry ELSE cache[q]]
       /\ lastStore' = [lastStore EXCEPT ![arg[t].project_name] =
                          <<[entry |-> entry, user_agent |-> arg[t].user_agent]>>]
    /\ trace' = [trace EXCEPT ![t] = Append(@, "store")]
    /\ pc' = [pc EXCEPT ![t] = "from_dict"]
    /\ UNCHANGED <<clock, arg, found, fetched, returned, crawl>>
    /\ UNCHANGED classifierVars

\* Project.from_dict on the dict: data["..."] of a missing key raises KeyError,
\* @typechecked raises on an info that is not a dict.
from_dict(data) ==
    IF data.info = "missing_key" THEN "KeyError"
    ELSE IF data.info = "not_a_dict" THEN "TypeCheckError"
    ELSE "Project"

Project_from_dict(t) ==
    /\ pc[t] = "from_dict"
    /\ returned' = [returned EXCEPT ![t] = from_dict(fetched[t][1])]
    /\ pc' = [pc EXCEPT ![t] =
                IF from_dict(fetched[t][1]) = "Project" THEN "returned" ELSE "raised"]
    /\ UNCHANGED <<cache, clock, lastStore, arg, found, fetched, trace, crawl>>
    /\ UNCHANGED classifierVars

\* One step of a call of Project.from_project_name in progress on thread t.
from_project_name(t) ==
    \/ Cache_load(t)
    \/ auto_sleep(t)
    \/ requests_get(t)
    \/ Cache_store(t)
    \/ Project_from_dict(t)

\* Time passes.
Tick ==
    /\ clock < MaxTicks * TickLength
    /\ clock' = clock + TickLength
    /\ UNCHANGED <<cache, lastStore, pc, arg, found, fetched, trace, returned, crawl>>
    /\ UNCHANGED classifierVars

(***************************************************************************)
(* cli.py: perpetual_scraper, run by the process on thread CrawlThread.    *)
(***************************************************************************)
CrawlThread == 1

\* What retrieve_all_package_names may return for a pass.
Catalogs == {<<"a", "b">>, <<"b">>}

\* The arguments and the per-call bookkeeping of a call that begins on thread t.
BeginCall(t, project_name, user_agent) ==
    /\ arg' = [arg EXCEPT ![t] = [project_name |-> project_name,
                                  user_agent |-> user_agent]]
    /\ pc' = [pc EXCEPT ![t] = "load"]
    /\ found' = [found EXCEPT ![t] = "none"]
    /\ fetched' = [fetched EXCEPT ![t] = <<>>]
    /\ trace' = [trace EXCEPT ![t] = <<>>]
    /\ returned' = [returned EXCEPT ![t] = "none"]

\* package_names = retrieve_all_package_names(user_agent)
perpetual_scraper_names ==
    /\ crawl.pc = "names"
    /\ \E names \in Catalogs :
         crawl' = [crawl EXCEPT !.package_names = names, !.idx = 1, !.pc = "for"]
    /\ UNCHANGED <<cache, clock, lastStore, pc, arg, found, fetched, trace, returned>>
    /\ UNCHANGED classifierVars

\* for package_name in package_names: the next name is looked up, or the pass
\* is over and `while True` begins the next one.
perpetual_scraper_for ==
    /\ crawl.pc = "for"
    /\ \/ /\ crawl.idx <= Len(crawl.package_names)
          /\ BeginCall(CrawlThread, crawl.package_names[crawl.idx], crawl.user_agent)
          /\ crawl' = [crawl EXCEPT !.pc = "call"]
       \/ /\ crawl.idx > Len(crawl.package_names)
          /\ crawl' = [crawl EXCEPT !.pc = "names"]
          /\ UNCHANGED <<pc, arg, found, fetched, trace, returned>>
    /\ UNCHANGED <<cache, clock, lastStore>>
    /\ UNCHANGED classifierVars

\* _ = Project.from_project_name(package_name, user_agent) returned.
perpetual_scraper_returned ==
    /\ crawl.pc = "call"
    /\ pc[CrawlThread] = "returned"
    /\ crawl' = [crawl EXCEPT !.idx = @ + 1, !.pc = "for"]
    /\ pc' = [pc EXCEPT ![CrawlThread] = "idle"]
    /\ UNCHANGED <<cache, clock, lastStore, arg, found, fetched, trace, returned>>
    /\ UNCHANGED classifierVars

\* The call raised: nothing in perpetual_scraper or main catches it, and the
\* process ends.
perpetual_scraper_raised ==
    /\ crawl.pc = "call"
    /\ pc[CrawlThread] = "raised"
    /\ crawl' = [crawl EXCEPT !.pc = "exited"]
    /\ UNCHANGED <<cache, clock, lastStore, pc, arg, found, fetched, trace, returned>>
    /\ UNCHANGED classifierVars

\* main: the subcommand is started again, with the --email of that run; the
\* files of the cache are those the last run left.
main ==
    /\ crawl.pc = "exited"
    /\ \E email \in Emails :
         crawl' = [pc |-> "names", user_agent |-> UserAgent(email),
                   package_names |-> <<>>, idx |-> 1]
    /\ pc' = [pc EXCEPT ![CrawlThread] = "idle"]
    /\ UNCHANGED <<cache, clock, lastStore, arg, found, fetched, trace, returned>>
    /\ UNCHANGED classifierVars

\* A caller of the API starts Project.from_project_name on an idle thread.
Call(t) ==
    /\ pc[t] = "idle"
    /\ \E project_name \in PackageNames, user_agent \in UserAgents :
         BeginCall(t, project_name, user_agent)
    /\ UNCHANGED <<cache, clock, lastStore, crawl>>
    /\ UNCHANGED classifierVars

(***************************************************************************)
(* Specifications                                                          *)
(***************************************************************************)
NoArg == [project_name |-> "none", user_agent |-> <<>>]

InitFetch ==
    /\ cache = <<>>
    /\ clock = 0
    /\ lastStore = [n \in PackageNames |-> <<>>]
    /\ pc = [t \in Threads |-> "idle"]
    /\ arg = [t \in Threads |-> NoArg]
    /\ found = [t \in Threads |-> "none"]
    /\ fetched = [t \in Threads |-> <<>>]
    /\ trace = [t \in Threads |-> <<>>]
    /\ returned = [t \in Threads |-> "none"]

NoCrawl == [pc |-> "off", user_agent |-> <<>>, package_names |-> <<>>, idx |-> 1]

\* Spec: the classifier methods, each on every input record.
Init ==
    /\ project \in ProjectInputs
    /\ now = Now
    /\ ClassifierIdle
    /\ InitFetch
    /\ crawl = NoCrawl

Next ==
    \/ CallIsDead
    \/ CallWorkingUrlsRate
    \/ CallSeemsDead
    \/ CallShouldBeTerminated

Spec == Init /\ [][Next]_vars

InitNoClassifier ==
    /\ project = [status |-> 404, info |-> <<>>, project_name |-> "pkg",
                  releases |-> [versions |-> <<>>]]
    /\ now = Now
    /\ ClassifierIdle

\* SpecCrawl: the perpetual_scraper process, alone on the cache.
InitCrawl ==
    /\ InitNoClassifier
    /\ InitFetch
    /\ \E email \in Emails :
         crawl = [pc |-> "names", user_agent |-> UserAgent(email),
                  package_names |-> <<>>, idx |-> 1]

NextCrawl ==
    \/ perpetual_scraper_names
    \/ perpetual_scraper_for
    \/ perpetual_scraper_returned
    \/ perpetual_scraper_raised
    \/ main
    \/ from_project_name(CrawlThread)
    \/ Tick

SpecCrawl == InitCrawl /\ [][NextCrawl]_vars

\* SpecConc: NumCallers threads call Project.from_project_name concurrently.
InitConc ==
    /\ InitNoClassifier
    /\ InitFetch
    /\ crawl = NoCrawl

NextConc ==
    \/ \E t \in Threads : Call(t) \/ from_project_name(t)
    \/ Tick

SpecConc == InitConc /\ [][NextConc]_vars

(***************************************************************************)
(* Properties of the classifier (Spec)                                     *)
(***************************************************************************)
\* No version of the release history holds an artifact.
NoArtifact(p) ==
    \A v \in DOMAIN p.releases.versions : p.releases.versions[v] = <<>>

\* C1: is_dead() returns true exactly when status != 200, or info is absent, or
\* info.yanked is true, or no version of the release history holds an artifact;
\* in every other case it returns false.
C1_IsDeadExactly ==
    called = "is_dead" =>
      outcome = Bool(\/ project.status # 200
                     \/ project.info = <<>>
                     \/ project.info[1].yanked
                     \/ NoArtifact(project))

\* is_dead was called on a 200 record with info, not yanked, whose versions are
\* all there but empty.
C1_Witness ==
    /\ called = "is_dead" /\ outcome = "True"
    /\ project.status = 200 /\ project.info # <<>> /\ ~project.info[1].yanked
    /\ DOMAIN project.releases.versions = {"1.0", "2.0"}

\* C2, as written: for a record for which is_dead() is true, seems_dead returns
\* false, without probing any URL.
C2_Original ==
    (called = "seems_dead" /\ is_dead(project)) =>
      (outcome = "False" /\ urlProbes = 0)

\* C2, amended: for a record for which is_dead() is true, seems_dead returns
\* true, without probing any URL.
C2_SeemsDeadOfDead ==
    (called = "seems_dead" /\ is_dead(project)) =>
      (outcome = "True" /\ urlProbes = 0)

\* seems_dead was called on a dead record that has candidate URLs to probe.
C2_Witness ==
    /\ called = "seems_dead" /\ is_dead(project)
    /\ project.info # <<>>
    /\ number_of_candidate_urls(project.info[1]) > 0

\* C3: with no candidate URL, working_urls_rate returns exactly 0 and does not
\* raise, and seems_dead and should_be_terminated on a record that is not dead
\* return a boolean.
C3_ZeroCandidateUrls ==
    (project.info # <<>> /\ number_of_candidate_urls(project.info[1]) = 0) =>
      /\ called = "working_urls_rate" => (outcome = "float" /\ rateValue.num = 0)
      /\ (called \in {"seems_dead", "should_be_terminated"} /\ ~is_dead(project)) =>
           outcome \in {"True", "False"}

\* C4: should_be_terminated returns true if is_dead is true; otherwise it
\* returns true exactly when seems_dead is true and neither the author email
\* nor the maintainer email validates; with seems_dead true and a valid author
\* email it returns false.
C4_ShouldBeTerminated ==
    called = "should_be_terminated" =>
      IF is_dead(project) THEN outcome = "True"
      ELSE LET seems == seems_dead(project, now).outcome
               author == project.info[1].author_email
               maintainer == project.info[1].maintainer_email
               noEmail == /\ (author = None \/ ~is_valid_email(author))
                          /\ (maintainer = None \/ ~is_valid_email(maintainer))
           IN
           /\ outcome = "True" <=> (seems = "True" /\ noEmail)
           /\ (seems = "True" /\ ~noEmail) => outcome = "False"
           /\ seems = "False" => outcome = "False"

\* should_be_terminated was called on a record that is not dead, seems dead and
\* has a valid author email.
C4_Witness ==
    /\ called = "should_be_terminated" /\ outcome = "False"
    /\ ~is_dead(project)
    /\ seems_dead(project, now).outcome = "True"
    /\ project.info[1].author_email = "valid@example.org"

\* The working-URL rate of the specification: the count over the number of
\* candidates, and 0 when there is none; here compared with one half.
SpecRateBelowHalf(info) ==
    \/ number_of_candidate_urls(info) = 0
    \/ 2 * number_of_working_urls(info) < number_of_candidate_urls(info)

\* The whole days between the upload of the most recent artifact and now.
AgeInDays(p, t) ==
    LET newest == CHOOSE u \in {r.upload_time_iso_8601 : r \in
                                  UNION {{p.releases.versions[v][i] :
                                            i \in 1..Len(p.releases.versions[v])} :
                                         v \in DOMAIN p.releases.versions}} :
                    \A v \in DOMAIN p.releases.versions :
                      \A i \in 1..Len(p.releases.versions[v]) :
                        p.releases.versions[v][i].upload_time_iso_8601 <= u
    IN (t - newest) \div SecondsPerDay

\* C5: for a record that is not dead, seems_dead equals (rate < 0.5 or working
\* count < 2) and (description length < 100 and summary length < 10) and (the
\* most recent release is more than 365 whole days old).
C5_SeemsDeadFormula ==
    (called = "seems_dead" /\ ~is_dead(project)) =>
      LET info == project.info[1] IN
      outcome = Bool(/\ (SpecRateBelowHalf(info) \/ number_of_working_urls(info) < 2)
                     /\ info.description.length < 100
                     /\ (IF info.summary = <<>> THEN 0 ELSE info.summary[1]) < 10
                     /\ AgeInDays(project, now) > 365)

(***************************************************************************)
(* Properties of the cached fetch and of the crawl (SpecCrawl, SpecConc)   *)
(***************************************************************************)
\* The number of requests the call in progress on thread t has made.
Requests(t) == Cardinality({i \in 1..Len(trace[t]) : trace[t][i] = "requests.get"})

\* The lookup and the fetch of the call on thread t are over.
Fetched(t) == pc[t] \in {"from_dict", "returned", "raised"} /\ trace[t] # <<>>

\* The call on thread t ended in a transport failure of its request.
FailedInTransport(t) ==
    pc[t] = "raised" /\ returned[t] = "requests.exceptions.RequestException"

\* C6: the cache is keyed by the package name alone.  A call for a name whose
\* entry, stored under whatever identity string, is younger than the validity
\* makes no request and returns the stored record; a call on a miss or on an
\* expired entry makes exactly one request and, unless the request failed in
\* transport, stores its result.
C6_CacheByNameAlone ==
    \A t \in Threads :
      Fetched(t) =>
        LET name == arg[t].project_name IN
        /\ found[t] = "fresh" =>
             /\ trace[t] = <<"hit">>
             /\ fetched[t] = <<lastStore[name][1].entry.data>>
             /\ pc[t] \in {"returned", "raised"} =>
                  returned[t] = from_dict(lastStore[name][1].entry.data)
        /\ found[t] \in {"absent", "stale"} =>
             /\ Requests(t) = 1
             /\ ~FailedInTransport(t) =>
                  /\ trace[t] = <<"miss", "auto_sleep", "requests.get", "store">>
                  /\ lastStore[name] # <<>>
                  /\ lastStore[name][1].entry.data = fetched[t][1]
                  /\ <<"project", name>> \in DOMAIN cache
                  /\ cache[<<"project", name>>] = lastStore[name][1].entry

\* A call was served from an entry that a run with another identity string stored.
C6_Witness ==
    \E t \in Threads :
      /\ Fetched(t) /\ found[t] = "fresh" /\ trace[t] = <<"hit">>
      /\ lastStore[arg[t].project_name][1].user_agent # arg[t].user_agent

\* C7: callers that request the same name concurrently while its entry is
\* missing or expired are coalesced: no two of them have each made the request
\* and not yet stored its result.
C7_SingleFlight ==
    \A t1, t2 \in Threads :
      (/\ t1 # t2
       /\ arg[t1].project_name = arg[t2].project_name
       /\ pc[t1] = "store") => pc[t2] # "store"

\* C8: a record whose construction fails with a missing key or a type mismatch
\* is skipped, and the crawl goes on: perpetual_scraper never ends on it.
C8_SkipAndContinue ==
    crawl.pc = "exited" => returned[CrawlThread] \notin {"KeyError", "TypeCheckError"}

\* C9: a request that fails in transport leaves the cache as it was: no entry
\* is written, changed or removed by it.
C9_TransientFailureNotRecorded ==
    [][\A t \in Threads :
         (pc[t] = "requests_get" /\ pc'[t] = "raised") =>
           (cache' = cache /\ lastStore' = lastStore)]_vars

\* A request failed in transport for a name that had an entry stored before.
C9_Witness ==
    \E t \in Threads :
      /\ FailedInTransport(t)
      /\ lastStore[arg[t].project_name] # <<>>
      /\ lastStore[arg[t].project_name][1].entry.data.status = 200

\* C10: every request to the registry comes right after the courtesy delay, and
\* a call served from the cache makes neither the delay nor a request.
C10_DelayBeforeRequest ==
    \A t \in Threads :
      /\ \A i \in 1..Len(trace[t]) :
           trace[t][i] = "requests.get" => (i > 1 /\ trace[t][i - 1] = "auto_sleep")
      /\ (trace[t] # <<>> /\ trace[t][1] = "hit") => trace[t] = <<"hit">>
      /\ (Fetched(t) /\ found[t] = "fresh") => trace[t] = <<"hit">>

\* In one pass the crawl was served one name from the cache and then, after the
\* delay, made the request for the next.
C10_Witness ==
    /\ crawl.pc = "call" /\ crawl.idx = 2
    /\ found[CrawlThread] = "absent"
    /\ trace[CrawlThread] = <<"miss", "auto_sleep", "requests.get">>
    /\ AgeClass(crawl.package_names[1]) = "fresh"
    /\ lastStore[crawl.package_names[1]][1].entry.creation_time < clock

====
